---- MODULE Spec2Model ----
(***************************************************************************)
(* Live tailing of the log service: the Watcher's subscriber registry      *)
(* (Subscribe, Unsubscribe, notifySubscribers) and the ReadHandler that    *)
(* serves one historical page (HandleRead) and then streams new events     *)
(* over a WebSocket (HandleWebSocket, readLoop).                           *)
(*                                                                         *)
(* An event is identified by its UUID.  UUIDs are assigned in write order, *)
(* so the model numbers them 1, 2, 3, ... by position in the log; the      *)
(* empty string "" is EmptyUUID.  A delivery channel carries event         *)
(* pointers; the model's channel buffers carry the UUIDs.                  *)
(*                                                                         *)
(* LogRepository.Find is not among the sources; FindIn states its          *)
(* contract (filter, strictly after SinceUUID, order per Reverse).  Of its *)
(* filter only the service set is represented.                             *)
(***************************************************************************)
EXTENDS Integers, Sequences, FiniteSets, TLC

\* ---------------------------------------------------------------- bounds
\* The log holds at most MaxEvents events.
MaxEvents == 3
\* Capacity of a delivery channel (make(chan *domain.Event, 50) in the
\* handler); small here so that channels do fill up and sends are dropped.
ChanCap == 1
\* Calls of Subscribe, and of Unsubscribe, that a direct client of the
\* Watcher makes on one channel.
MaxSubscribes == 1
MaxUnsubscribes == 2

\* The file events the watch loop receives, and the calls of Stop.
MaxFileEvents == 2
MaxStops == 1

\* ------------------------------------------------------------- constants
\* The zero value of LogQuery.SinceUUID, "".
EmptyUUID == 0

Services == {"lighting", "heating"}
\* LogQuery.Services values of the requests: no filter, or one service.
ServiceSets == {{}, {"lighting"}}

\* Channels made by HandleWebSocket (one per connection) and channels of
\* direct clients of the Watcher.
Conns == {"h1"}
Clients == {"a1"}
Channels == Conns \cup Clients
NoChan == "none"

UUIDs == 1..MaxEvents

VARIABLES
  log,          \* the stored events, oldest first: log[i] = [UUID |-> i, Service |-> s]
  subscribers,  \* Watcher.subscribers: channel -> LogQuery
  mapNil,       \* Watcher.subscribers == nil (never made)
  mux,          \* Watcher.mux: "free", or "notify" while a notify pass holds it
  pass,         \* position of notifySubscribers inside its loops
  chan,         \* the buffer of each delivery channel
  closed,       \* whether each delivery channel has been closed
  conn,         \* each connection: its handler's position and its WebSocket
  hist,         \* per channel: what was sent, dropped, and the calls made
  hpass,        \* the running (or last) notify pass: what it saw and did
  watch         \* Watcher.Start and Stop: the watch loop and its fsnotify watcher

vars == <<log, subscribers, mapNil, mux, pass, chan, closed, conn, hist, hpass, watch>>

\* ------------------------------------------------------------- helpers
Last(s) == s[Len(s)]

RECURSIVE Rev(_)
Rev(s) == IF s = <<>> THEN <<>> ELSE Append(Rev(Tail(s)), Head(s))

RECURSIVE SeqToSet(_)
SeqToSet(s) == IF s = <<>> THEN {} ELSE {Head(s)} \cup SeqToSet(Tail(s))

StrictlyIncreasing(s) == \A i \in 1..Len(s) : \A j \in 1..Len(s) : i < j => s[i] < s[j]

IsSuffix(s, t) ==
  /\ Len(s) <= Len(t)
  /\ s = SubSeq(t, Len(t) - Len(s) + 1, Len(t))

\* repository.LogQuery, as far as the watcher and the handler use it.
LogQuery(svcs, since, rev) == [Services |-> svcs, SinceUUID |-> since, Reverse |-> rev]

\* ------------------------------------------------- the storage contract
\* An event passes the query's filter.
Matches(q, e) == q.Services = {} \/ e.Service \in q.Services

\* LogRepository.Find over the log l: the UUIDs of the events that pass the
\* filter and lie strictly after q.SinceUUID, newest first when q.Reverse.
FindIn(l, q) ==
  LET hit == SelectSeq(l, LAMBDA e : Matches(q, e) /\ e.UUID > q.SinceUUID)
      ids == [i \in 1..Len(hit) |-> hit[i].UUID]
  IN  IF q.Reverse THEN Rev(ids) ELSE ids

Find(q) == FindIn(log, q)

\* ------------------------------------------------------------- Init
NoPass == [pending |-> {}, cur |-> NoChan, events |-> <<>>, i |-> 0]

\* The registry with no entry.
NoSubscribers == [c \in {} |-> LogQuery({}, EmptyUUID, FALSE)]

\* History of one channel: the UUIDs sent to it (in order) and dropped for it,
\* the successful Subscribe calls, the Unsubscribe calls, the Subscribe calls
\* made with an empty SinceUUID and the Subscribe calls that returned an error.
NoHist == [sent |-> <<>>, dropped |-> {}, subs |-> 0, unsubs |-> 0,
           empties |-> 0, errs |-> 0]

\* A connection: the handler's position (pc), the request's filter and
\* direction (req), the page HandleRead returned and its LastUUID, the
\* WebSocket (ws), readLoop's goroutine (rl), the done channel closed (done);
\* and as history the way the delivery loop ended (exit) and whether a write
\* to the WebSocket succeeded after done was closed (late).
NoConn ==
  [pc |-> "init", req |-> LogQuery({}, EmptyUUID, FALSE), page |-> <<>>,
   lastUUID |-> EmptyUUID, ws |-> "none", rl |-> "none", done |-> FALSE,
   exit |-> "none", late |-> FALSE]

\* History of the running notify pass: the length of the log and the registry
\* when it took the lock, per subscriber what was sent and dropped, and the
\* subscribers whose Find failed.
NoHpass == [logLen |-> 0, q0 |-> NoSubscribers,
            got |-> [c \in {} |-> <<>>], lost |-> [c \in {} |-> {}],
            failed |-> {}]

\* The watch loop: the position of Start (pc), the Op of the file event the
\* loop has received (op), the field w.watcher (handle), the fsnotify watcher
\* (fs), what Start returned (ret); and as history the file events received,
\* those of them with the Write bit, the passes the loop started, the Stop
\* calls, and where Start was at the last Stop call.
NoWatch ==
  [pc |-> "new", op |-> {}, handle |-> "nil", fs |-> "none", ret |-> "none",
   recvd |-> 0, writes |-> 0, passes |-> 0, stops |-> 0, stopPc |-> "none"]

Init ==
  /\ log = <<>>
  /\ subscribers = NoSubscribers
  /\ mapNil = TRUE
  /\ mux = "free"
  /\ pass = NoPass
  /\ chan = [c \in Channels |-> <<>>]
  /\ closed = [c \in Channels |-> FALSE]
  /\ conn = [h \in Conns |-> NoConn]
  /\ hist = [c \in Channels |-> NoHist]
  /\ hpass = NoHpass
  /\ watch = NoWatch

\* ------------------------------------------------------ the log writer
\* Another service writes one event; it gets the next UUID.
WriteEvent ==
  /\ Len(log) < MaxEvents
  /\ \E s \in Services : log' = Append(log, [UUID |-> Len(log) + 1, Service |-> s])
  /\ UNCHANGED <<subscribers, mapNil, mux, pass, chan, closed, conn, hist, hpass, watch>>

\* ------------------------------------------------------------ Watcher
\* Mutant of SubscribeErr: no check of the cursor.
SubscribeErr_NoCheck(q) == FALSE

\* Subscribe's early return (part_000:99-101): the query has no SinceUUID.
SubscribeErr(q) == q.SinceUUID = EmptyUUID

\* Subscribe past its check, under the lock: make the map if it is nil and
\* store q under c, replacing any entry c had.
Subscribe(c, q) ==
  /\ mapNil' = FALSE
  /\ subscribers' = [d \in DOMAIN subscribers \cup {c} |->
                       IF d = c THEN q ELSE subscribers[d]]

\* Mutant of Unsubscribe: the whole map is emptied.
Unsubscribe_Clear(c) ==
  /\ subscribers' = NoSubscribers
  /\ UNCHANGED <<mapNil, closed>>

\* Unsubscribe, under the lock: delete(w.subscribers, c).  Deleting from a
\* nil map, or a key the map does not hold, does nothing.  The channel is
\* not closed.
Unsubscribe(c) ==
  /\ subscribers' = [d \in DOMAIN subscribers \ {c} |-> subscribers[d]]
  /\ UNCHANGED <<mapNil, closed>>

\* notifySubscribers takes the lock (and keeps it to the end of the pass);
\* the range loop will visit the entries the map holds now.
NotifyLock ==
  /\ mux = "free"
  /\ mux' = "notify"
  /\ pass' = [pending |-> DOMAIN subscribers, cur |-> NoChan, events |-> <<>>, i |-> 0]
  /\ hpass' = [logLen |-> Len(log), q0 |-> subscribers,
               got |-> [c \in DOMAIN subscribers |-> <<>>],
               lost |-> [c \in DOMAIN subscribers |-> {}],
               failed |-> {}]
  /\ UNCHANGED <<log, subscribers, mapNil, chan, closed, conn, hist>>

\* A pass starts, whatever the watch loop is doing: the caller of
\* notifySubscribers left out.
PassStarts == NotifyLock /\ UNCHANGED watch

\* Mutant of ForceForward: the direction left as the request gave it.
ForceForward_Keep(q) == q

\* q.Reverse = false (part_000:133).
ForceForward(q) == [q EXCEPT !.Reverse = FALSE]

\* Mutant of NotifyQuery: a failed Find ends the pass (return, not continue).
NotifyQuery_AbortOnError(c) ==
  /\ mux = "notify"
  /\ pass.cur = NoChan
  /\ c \in pass.pending
  /\ LET q == ForceForward(subscribers[c]) IN
       /\ subscribers' = [subscribers EXCEPT ![c] = q]
       /\ \E ok \in BOOLEAN :
            IF ok
            THEN /\ pass' = [pass EXCEPT !.cur = c, !.events = Find(q), !.i = 1]
                 /\ hpass' = hpass
            ELSE /\ pass' = [pass EXCEPT !.pending = {}]
                 /\ hpass' = [hpass EXCEPT !.failed = @ \cup {c}]
  /\ UNCHANGED <<log, mapNil, mux, chan, closed, conn, hist, watch>>

\* The loop body up to the query, for the next subscriber c the range loop
\* yields (in any order): force the direction, call Find.  A failed Find is
\* logged and the loop continues with the next subscriber.
NotifyQuery(c) ==
  /\ mux = "notify"
  /\ pass.cur = NoChan
  /\ c \in pass.pending
  /\ LET q == ForceForward(subscribers[c]) IN
       /\ subscribers' = [subscribers EXCEPT ![c] = q]
       /\ \E ok \in BOOLEAN :
            IF ok
            THEN /\ pass' = [pass EXCEPT !.cur = c, !.events = Find(q), !.i = 1]
                 /\ hpass' = hpass
            ELSE /\ pass' = [pass EXCEPT !.pending = @ \ {c}]
                 /\ hpass' = [hpass EXCEPT !.failed = @ \cup {c}]
  /\ UNCHANGED <<log, mapNil, mux, chan, closed, conn, hist, watch>>

\* Mutant of SendProceeds: a plain send, which waits for room.
SendProceeds_Blocking(c) == Len(chan[c]) < ChanCap

\* The select of part_000:144-147 can always proceed: when the channel cannot
\* take the event, its default case is chosen.
SendProceeds(c) == TRUE

\* Mutant of HasRoom: the send is taken only when every subscriber's buffer
\* has room.
HasRoom_AllHaveRoom(c) == \A d \in DOMAIN subscribers : Len(chan[d]) < ChanCap

\* The send case of the select is ready: the buffer has room.
HasRoom(c) == Len(chan[c]) < ChanCap

\* One iteration of the send loop: events[i] goes into the channel's buffer,
\* or is dropped when the buffer is full.
NotifySend ==
  /\ mux = "notify"
  /\ pass.cur # NoChan
  /\ pass.i <= Len(pass.events)
  /\ SendProceeds(pass.cur)
  /\ LET c == pass.cur
         e == pass.events[pass.i]
     IN  IF HasRoom(c)
         THEN /\ chan' = [chan EXCEPT ![c] = Append(@, e)]
              /\ hist' = [hist EXCEPT ![c].sent = Append(@, e)]
              /\ hpass' = [hpass EXCEPT !.got[c] = Append(@, e)]
         ELSE /\ chan' = chan
              /\ hist' = [hist EXCEPT ![c].dropped = @ \cup {e}]
              /\ hpass' = [hpass EXCEPT !.lost[c] = @ \cup {e}]
  /\ pass' = [pass EXCEPT !.i = @ + 1]
  /\ UNCHANGED <<log, subscribers, mapNil, mux, closed, conn, watch>>

\* Mutants of AdvanceCursor: the cursor taken from the first event of the
\* batch; the cursor never moved; the cursor moved only to the last event
\* that was sent.
AdvanceCursor_First(q, events) ==
  IF Len(events) > 0 THEN [q EXCEPT !.SinceUUID = events[1]] ELSE q

AdvanceCursor_Never(q, events) == q

AdvanceCursor_LastSent(q, events) ==
  IF hpass.got[pass.cur] # <<>>
  THEN [q EXCEPT !.SinceUUID = Last(hpass.got[pass.cur])]
  ELSE q

\* part_000:151-154: the query's cursor after a batch.
AdvanceCursor(q, events) ==
  IF Len(events) > 0 THEN [q EXCEPT !.SinceUUID = Last(events)] ELSE q

\* The end of the loop body for the current subscriber.
NotifyAdvance ==
  /\ mux = "notify"
  /\ pass.cur # NoChan
  /\ pass.i > Len(pass.events)
  /\ subscribers' = [subscribers EXCEPT ![pass.cur] = AdvanceCursor(@, pass.events)]
  /\ pass' = [pending |-> pass.pending \ {pass.cur}, cur |-> NoChan, events |-> <<>>, i |-> 0]
  /\ UNCHANGED <<log, mapNil, mux, chan, closed, conn, hist, hpass, watch>>

\* The range loop is over; the deferred Unlock runs.
NotifyUnlock ==
  /\ mux = "notify"
  /\ pass.cur = NoChan
  /\ pass.pending = {}
  /\ mux' = "free"
  /\ hpass' = NoHpass
  /\ UNCHANGED <<log, subscribers, mapNil, pass, chan, closed, conn, hist, watch>>

\* ----------------------------------------- direct clients of the Watcher
\* The queries a direct client subscribes with.
ClientQueries ==
  {LogQuery({}, u, FALSE) : u \in {EmptyUUID} \cup UUIDs}

\* A client calls Subscribe(c, q).  The check of q comes before the lock.
ClientSubscribe(c) ==
  /\ hist[c].subs + hist[c].errs < MaxSubscribes
  /\ \E q \in ClientQueries :
       LET emp == IF q.SinceUUID = EmptyUUID THEN 1 ELSE 0 IN
       IF SubscribeErr(q)
       THEN /\ hist' = [hist EXCEPT ![c].errs = @ + 1, ![c].empties = @ + emp]
            /\ UNCHANGED <<subscribers, mapNil>>
       ELSE /\ mux = "free"
            /\ Subscribe(c, q)
            /\ hist' = [hist EXCEPT ![c].subs = @ + 1, ![c].empties = @ + emp]
  /\ UNCHANGED <<log, mux, pass, chan, closed, conn, hpass, watch>>

\* Mutant of ClientUnsubscribe: the delete without the lock.
ClientUnsubscribe_NoLock(c) ==
  /\ hist[c].unsubs < MaxUnsubscribes
  /\ Unsubscribe(c)
  /\ hist' = [hist EXCEPT ![c].unsubs = @ + 1]
  /\ UNCHANGED <<log, mux, pass, chan, conn, hpass, watch>>

\* A client calls Unsubscribe(c), whether or not c is subscribed.
ClientUnsubscribe(c) ==
  /\ hist[c].unsubs < MaxUnsubscribes
  /\ mux = "free"
  /\ Unsubscribe(c)
  /\ hist' = [hist EXCEPT ![c].unsubs = @ + 1]
  /\ UNCHANGED <<log, mux, pass, chan, conn, hpass, watch>>

\* A client receives the next event from its channel.
ClientRecv(c) ==
  /\ chan[c] # <<>>
  /\ chan' = [chan EXCEPT ![c] = Tail(@)]
  /\ UNCHANGED <<log, subscribers, mapNil, mux, pass, closed, conn, hist, hpass, watch>>

\* ------------------------------------------------------------ ReadHandler
\* The query HandleWebSocket subscribes with: the page's filter and
\* direction, and since_uuid set to the page's LastUUID.
WsQuery(h) == LogQuery(conn[h].req.Services, conn[h].lastUUID, conn[h].req.Reverse)

\* Mutant of LastUUIDOf: the last returned event whatever the direction.
LastUUIDOf_Last(events, reverse) ==
  IF Len(events) > 0 THEN Last(events) ELSE EmptyUUID

\* read.go:89-97: the resume cursor of a page.
LastUUIDOf(events, reverse) ==
  IF Len(events) > 0
  THEN IF reverse THEN events[1] ELSE Last(events)
  ELSE EmptyUUID

\* HandleRead: one historical query; the page and its LastUUID, or the
\* error response when Find fails (the viewer has no page and asks again).
HandleRead(h) ==
  /\ conn[h].pc = "init"
  /\ \E s \in ServiceSets, r \in BOOLEAN, ok \in BOOLEAN :
       LET q == LogQuery(s, EmptyUUID, r) IN
       IF ok
       THEN conn' = [conn EXCEPT ![h].pc = "paged", ![h].req = q,
                                 ![h].page = Find(q),
                                 ![h].lastUUID = LastUUIDOf(Find(q), r)]
       ELSE conn' = conn
  /\ UNCHANGED <<log, subscribers, mapNil, mux, pass, chan, closed, hist, hpass, watch>>

\* HandleWebSocket up to the subscribe: the upgrade (which may fail) and
\* the start of readLoop in its own goroutine.
WsUpgrade(h) ==
  /\ conn[h].pc = "paged"
  /\ \E ok \in BOOLEAN :
       IF ok
       THEN conn' = [conn EXCEPT ![h].pc = "subscribing", ![h].ws = "open",
                                 ![h].rl = "running"]
       ELSE conn' = [conn EXCEPT ![h].pc = "returned", ![h].exit = "upgradeErr"]
  /\ UNCHANGED <<log, subscribers, mapNil, mux, pass, chan, closed, hist, hpass, watch>>

\* read.go:168-176: make the channel, Subscribe; on an error return (the
\* deferred ws.Close is left to run), otherwise defer Unsubscribe.
WsSubscribe(h) ==
  /\ conn[h].pc = "subscribing"
  /\ LET q == WsQuery(h)
         emp == IF q.SinceUUID = EmptyUUID THEN 1 ELSE 0
     IN  IF SubscribeErr(q)
         THEN /\ conn' = [conn EXCEPT ![h].pc = "closing", ![h].exit = "subscribeErr"]
              /\ hist' = [hist EXCEPT ![h].errs = @ + 1, ![h].empties = @ + emp]
              /\ UNCHANGED <<subscribers, mapNil>>
         ELSE /\ mux = "free"
              /\ Subscribe(h, q)
              /\ conn' = [conn EXCEPT ![h].pc = "streaming"]
              /\ hist' = [hist EXCEPT ![h].subs = @ + 1, ![h].empties = @ + emp]
  /\ UNCHANGED <<log, mux, pass, chan, closed, hpass, watch>>

\* Mutant of WriteCanSucceed: a write succeeds on a closed connection too.
WriteCanSucceed_Always(h) == TRUE

\* ws.WriteMessage (read.go:193) can succeed only while the connection is
\* open: after c.Close() (read.go:242) or ws.Close() it returns an error.
WriteCanSucceed(h) == conn[h].ws = "open"

\* The delivery loop's case event, ok := <-events: a closed and drained
\* channel ends the handler; otherwise the event is marshalled (on a failure
\* the loop continues) and written to the WebSocket, and a failed write ends
\* the handler.
WsRecv(h) ==
  /\ conn[h].pc = "streaming"
  /\ chan[h] # <<>> \/ closed[h]
  /\ IF chan[h] = <<>>
     THEN /\ conn' = [conn EXCEPT ![h].pc = "unsubscribing", ![h].exit = "chanClosed"]
          /\ chan' = chan
     ELSE /\ chan' = [chan EXCEPT ![h] = Tail(@)]
          /\ \E r \in {"marshalErr", "written", "writeErr"} :
               /\ r = "written" => WriteCanSucceed(h)
               /\ conn' = CASE r = "marshalErr" -> conn
                            [] r = "written" ->
                                 [conn EXCEPT ![h].late = @ \/ conn[h].done]
                            [] r = "writeErr" ->
                                 [conn EXCEPT ![h].pc = "unsubscribing",
                                              ![h].exit = "writeErr"]
  /\ UNCHANGED <<log, subscribers, mapNil, mux, pass, closed, hist, hpass, watch>>

\* Mutant of WsDone: the handler leaves without the Unsubscribe.
WsDone_NoUnsubscribe(h) ==
  /\ conn[h].pc = "streaming"
  /\ conn[h].done
  /\ conn' = [conn EXCEPT ![h].pc = "closing", ![h].exit = "peer"]
  /\ UNCHANGED <<log, subscribers, mapNil, mux, pass, chan, closed, hist, hpass, watch>>

\* The delivery loop's case <-done: the client has gone away.
WsDone(h) ==
  /\ conn[h].pc = "streaming"
  /\ conn[h].done
  /\ conn' = [conn EXCEPT ![h].pc = "unsubscribing", ![h].exit = "peer"]
  /\ UNCHANGED <<log, subscribers, mapNil, mux, pass, chan, closed, hist, hpass, watch>>

\* The deferred h.Watcher.Unsubscribe(events).
WsUnsubscribe(h) ==
  /\ conn[h].pc = "unsubscribing"
  /\ mux = "free"
  /\ Unsubscribe(h)
  /\ hist' = [hist EXCEPT ![h].unsubs = @ + 1]
  /\ conn' = [conn EXCEPT ![h].pc = "closing"]
  /\ UNCHANGED <<log, mux, pass, chan, hpass, watch>>

\* The deferred ws.Close(); the handler returns.
WsClose(h) ==
  /\ conn[h].pc = "closing"
  /\ conn' = [conn EXCEPT ![h].pc = "returned", ![h].ws = "closed"]
  /\ UNCHANGED <<log, subscribers, mapNil, mux, pass, chan, closed, hist, hpass, watch>>

\* readLoop while the connection is open: the viewer closes its end (or the
\* read fails otherwise), NextReader returns an error, readLoop closes the
\* connection and returns, and the goroutine's deferred close(done) runs.
ReadLoopPeer(h) ==
  /\ conn[h].rl = "running"
  /\ conn[h].ws = "open"
  /\ conn' = [conn EXCEPT ![h].rl = "exited", ![h].ws = "closed", ![h].done = TRUE]
  /\ UNCHANGED <<log, subscribers, mapNil, mux, pass, chan, closed, hist, hpass, watch>>

\* readLoop after the handler has closed the connection: NextReader returns
\* an error, and readLoop returns the same way.
ReadLoopClosed(h) ==
  /\ conn[h].rl = "running"
  /\ conn[h].ws = "closed"
  /\ conn' = [conn EXCEPT ![h].rl = "exited", ![h].done = TRUE]
  /\ UNCHANGED <<log, subscribers, mapNil, mux, pass, chan, closed, hist, hpass, watch>>

\* ----------------------------------------------------- Watcher.Start, Stop
\* The Op of a file event: the set of its bits.
FileOps == {{"Write"}, {"Write", "Chmod"}, {"Create"}}

\* Mutant of IsWrite: the Op compared with Write as a whole.
IsWrite_Exact(op) == op = {"Write"}

\* part_000:67: fileEvent.Op&fsnotify.Write == fsnotify.Write.
IsWrite(op) == "Write" \in op

\* Mutant of StartReturns: no deferred Close.
StartReturns_NoClose(r) == [watch EXCEPT !.pc = "returned", !.ret = r, !.op = {}]

\* Start returns r; the deferred watcher.Close() (part_000:45) runs when the
\* fsnotify watcher had been made.
StartReturns(r) ==
  [watch EXCEPT !.pc = "returned", !.ret = r, !.op = {},
                !.fs = IF @ = "open" THEN "closed" ELSE @]

\* Start up to the defer (part_000:31-45): the checks of the receiver, then
\* fsnotify.NewWatcher(); each of them may fail.
Start ==
  /\ watch.pc = "new"
  /\ \E o \in {"invalid", "newErr", "ok"} :
       watch' = IF o = "ok" THEN [watch EXCEPT !.pc = "made", !.fs = "open"]
                            ELSE StartReturns("err")
  /\ UNCHANGED <<log, subscribers, mapNil, mux, pass, chan, closed, conn, hist, hpass>>

\* w.watcher = watcher (part_000:46).
StartAssign ==
  /\ watch.pc = "made"
  /\ watch' = [watch EXCEPT !.pc = "assigned", !.handle = "set"]
  /\ UNCHANGED <<log, subscribers, mapNil, mux, pass, chan, closed, conn, hist, hpass>>

\* watcher.Add(dir) (part_000:50-52); on an error Start returns it.
StartAdd ==
  /\ watch.pc = "assigned"
  /\ \E ok \in BOOLEAN :
       watch' = IF ok THEN [watch EXCEPT !.pc = "loop"] ELSE StartReturns("err")
  /\ UNCHANGED <<log, subscribers, mapNil, mux, pass, chan, closed, conn, hist, hpass>>

\* The loop's goroutine is at its select: not inside notifySubscribers.
AtSelect == watch.pc = "loop" /\ mux = "free"

\* case fileEvent, ok := <-watcher.Events with ok: a file of the directory
\* was created, written or changed.
LoopRecv ==
  /\ AtSelect
  /\ watch.fs = "open"
  /\ watch.recvd < MaxFileEvents
  /\ \E op \in FileOps :
       watch' = [watch EXCEPT !.pc = "got", !.op = op, !.recvd = @ + 1,
                              !.writes = @ + (IF "Write" \in op THEN 1 ELSE 0)]
  /\ UNCHANGED <<log, subscribers, mapNil, mux, pass, chan, closed, conn, hist, hpass>>

\* The event is not a write: continue.
LoopIgnore ==
  /\ watch.pc = "got"
  /\ ~IsWrite(watch.op)
  /\ watch' = [watch EXCEPT !.pc = "loop", !.op = {}]
  /\ UNCHANGED <<log, subscribers, mapNil, mux, pass, chan, closed, conn, hist, hpass>>

\* The event is a write: w.notifySubscribers() (part_000:71); the loop is
\* back at its select when the pass has unlocked.
LoopNotify ==
  /\ watch.pc = "got"
  /\ IsWrite(watch.op)
  /\ NotifyLock
  /\ watch' = [watch EXCEPT !.pc = "loop", !.op = {}, !.passes = @ + 1]

\* case err, ok := <-watcher.Errors with ok: Start returns the error.
LoopError ==
  /\ AtSelect
  /\ watch.fs = "open"
  /\ watch' = StartReturns("err")
  /\ UNCHANGED <<log, subscribers, mapNil, mux, pass, chan, closed, conn, hist, hpass>>

\* Either channel is closed (the fsnotify watcher has been closed): Start
\* returns nil.
LoopClosed ==
  /\ AtSelect
  /\ watch.fs = "closed"
  /\ watch' = StartReturns("nil")
  /\ UNCHANGED <<log, subscribers, mapNil, mux, pass, chan, closed, conn, hist, hpass>>

\* Stop (part_000:88-94), called from another goroutine than Start's.  Its
\* read of w.watcher is not synchronised with Start's write of it, so once
\* the field is set the read yields the watcher or still nil.  Close on a
\* closed watcher does nothing.
Stop ==
  /\ watch.stops < MaxStops
  /\ \E seen \in (IF watch.handle = "set" THEN {"set", "nil"} ELSE {"nil"}) :
       watch' = [watch EXCEPT !.stops = @ + 1, !.stopPc = watch.pc,
                              !.fs = IF seen = "set" /\ @ = "open"
                                     THEN "closed" ELSE @]
  /\ UNCHANGED <<log, subscribers, mapNil, mux, pass, chan, closed, conn, hist, hpass>>

\* ------------------------------------------------------------ the system
Next ==
  \/ WriteEvent
  \/ PassStarts
  \/ \E c \in Channels : NotifyQuery(c)
  \/ NotifySend
  \/ NotifyAdvance
  \/ NotifyUnlock
  \/ \E c \in Clients : ClientSubscribe(c)
  \/ \E c \in Clients : ClientUnsubscribe(c)
  \/ \E c \in Clients : ClientRecv(c)
  \/ \E h \in Conns : HandleRead(h)
  \/ \E h \in Conns : WsUpgrade(h)
  \/ \E h \in Conns : WsSubscribe(h)
  \/ \E h \in Conns : WsRecv(h)
  \/ \E h \in Conns : WsDone(h)
  \/ \E h \in Conns : WsUnsubscribe(h)
  \/ \E h \in Conns : WsClose(h)
  \/ \E h \in Conns : ReadLoopPeer(h)
  \/ \E h \in Conns : ReadLoopClosed(h)

Spec == Init /\ [][Next]_vars

\* The handler's side alone: one connection, no direct client.
NextConns ==
  \/ WriteEvent
  \/ PassStarts
  \/ \E c \in Channels : NotifyQuery(c)
  \/ NotifySend
  \/ NotifyAdvance
  \/ NotifyUnlock
  \/ \E h \in Conns : HandleRead(h)
  \/ \E h \in Conns : WsUpgrade(h)
  \/ \E h \in Conns : WsSubscribe(h)
  \/ \E h \in Conns : WsRecv(h)
  \/ \E h \in Conns : WsDone(h)
  \/ \E h \in Conns : WsUnsubscribe(h)
  \/ \E h \in Conns : WsClose(h)
  \/ \E h \in Conns : ReadLoopPeer(h)
  \/ \E h \in Conns : ReadLoopClosed(h)

SpecConns == Init /\ [][NextConns]_vars

\* The handler's goroutines keep being scheduled: it reaches its Subscribe,
\* the select takes the done case when it stays ready, the deferred calls
\* run, Unsubscribe gets the lock that passes keep releasing, readLoop sees
\* the closed connection, and a running pass goes on.
FairConns ==
  /\ Init /\ [][NextConns]_vars
  /\ \A h \in Conns :
       /\ WF_vars(WsSubscribe(h))
       /\ WF_vars(WsDone(h))
       /\ SF_vars(WsUnsubscribe(h))
       /\ WF_vars(WsClose(h))
       /\ WF_vars(ReadLoopClosed(h))
  /\ WF_vars(\E c \in Channels : NotifyQuery(c))
  /\ WF_vars(NotifySend) /\ WF_vars(NotifyAdvance) /\ WF_vars(NotifyUnlock)

\* One step of a running notify pass.
NotifyStep ==
  \/ \E c \in Channels : NotifyQuery(c)
  \/ NotifySend
  \/ NotifyAdvance
  \/ NotifyUnlock

\* The goroutine that runs notifySubscribers keeps being scheduled, and each
\* Find returns.
\* Consumers that never drain their channels: the system without the two
\* receive actions.
NextStalled ==
  \/ WriteEvent
  \/ PassStarts
  \/ \E c \in Channels : NotifyQuery(c)
  \/ NotifySend
  \/ NotifyAdvance
  \/ NotifyUnlock
  \/ \E c \in Clients : ClientSubscribe(c)
  \/ \E c \in Clients : ClientUnsubscribe(c)
  \/ \E h \in Conns : HandleRead(h)
  \/ \E h \in Conns : WsUpgrade(h)
  \/ \E h \in Conns : WsSubscribe(h)
  \/ \E h \in Conns : WsDone(h)
  \/ \E h \in Conns : WsUnsubscribe(h)
  \/ \E h \in Conns : WsClose(h)
  \/ \E h \in Conns : ReadLoopPeer(h)
  \/ \E h \in Conns : ReadLoopClosed(h)

FairStalled == Init /\ [][NextStalled]_vars /\ WF_vars(NotifyStep)

\* The Watcher with its watch loop and direct clients: the loop calls
\* notifySubscribers, Stop is called at any moment.
NextWatch ==
  \/ WriteEvent
  \/ Start
  \/ StartAssign
  \/ StartAdd
  \/ LoopRecv
  \/ LoopIgnore
  \/ LoopNotify
  \/ LoopError
  \/ LoopClosed
  \/ Stop
  \/ \E c \in Channels : NotifyQuery(c)
  \/ NotifySend
  \/ NotifyAdvance
  \/ NotifyUnlock
  \/ \E c \in Clients : ClientSubscribe(c)
  \/ \E c \in Clients : ClientUnsubscribe(c)
  \/ \E c \in Clients : ClientRecv(c)

SpecWatch == Init /\ [][NextWatch]_vars

\* ------------------------------------------------------------- claims
Max(S) == CHOOSE x \in S : \A y \in S : y <= x

\* The subscribers the running pass has finished with.
PassDone == DOMAIN hpass.q0 \ (pass.pending \cup {pass.cur})

\* A step in which Subscribe(c, q) was called with an empty q.SinceUUID.
EmptySubscribeStep(c) == hist'[c].empties = hist[c].empties + 1

\* C1: Subscribe with an empty SinceUUID returns an error and adds no entry to
\* the subscriber map (the map is as it was, and no entry ever holds an empty
\* cursor); a channel that was only ever refused has no entry, and no notify
\* pass sends or drops anything for it.
C1_RejectsEmptyCursor ==
  /\ [](\A c \in Channels :
         /\ hist[c].errs = hist[c].empties
         /\ c \in DOMAIN subscribers => subscribers[c].SinceUUID # EmptyUUID
         /\ hist[c].subs = 0 =>
              /\ c \notin DOMAIN subscribers
              /\ c \notin DOMAIN hpass.q0
              /\ hist[c].sent = <<>> /\ hist[c].dropped = {} /\ chan[c] = <<>>)
  /\ [][\A c \in Channels :
          EmptySubscribeStep(c) =>
            /\ hist'[c].errs = hist[c].errs + 1
            /\ subscribers' = subscribers
            /\ mapNil' = mapNil]_vars

\* A connection's Subscribe was refused, and a later pass is serving the
\* other subscriber.
C1_Witness ==
  \E h \in Conns : \E c \in Clients :
    /\ hist[h].empties = 1 /\ hist[h].errs = 1
    /\ conn[h].pc = "returned"
    /\ mux = "notify" /\ c \in DOMAIN hpass.got /\ hpass.got[c] # <<>>

\* A step of the running pass that ends the loop body for subscriber c.
PassLeaves(c) == pass.cur = c /\ pass'.cur # c

\* C2: while a subscriber stays subscribed, every step leaves its SinceUUID
\* unchanged or moves it forward to the UUID of the last (newest) event of the
\* batch the pass's query returned; the pass changes it exactly when the batch
\* is not empty.
C2_CursorMonotone ==
  [][\A c \in DOMAIN subscribers \cap DOMAIN subscribers' :
       hist'[c].subs = hist[c].subs =>
         LET old == subscribers[c].SinceUUID
             new == subscribers'[c].SinceUUID
         IN  /\ new # old =>
                  /\ PassLeaves(c)
                  /\ pass.events # <<>>
                  /\ new = Max(SeqToSet(pass.events))
                  /\ new > old
             /\ (PassLeaves(c) /\ pass.events # <<>>) => new # old]_vars

\* A pass has finished with a subscriber whose filter left out an event after
\* its cursor, and the cursor stayed; and with one whose cursor moved.
C2_Witness ==
  /\ mux = "notify"
  /\ \E c \in PassDone :
       /\ c \notin hpass.failed
       /\ subscribers[c].SinceUUID = hpass.q0[c].SinceUUID
       /\ \E i \in 1..hpass.logLen :
            i > subscribers[c].SinceUUID /\ ~Matches(subscribers[c], log[i])
  /\ \E c \in Channels : hist[c].sent # <<>>

\* C3: the events sent to a channel that was subscribed once are strictly
\* increasing in UUID: none out of order, none twice.
C3_DeliveryInOrder ==
  \A c \in Channels : hist[c].subs <= 1 => StrictlyIncreasing(hist[c].sent)

\* Two events have been sent to a subscriber, and a pass that finds nothing
\* new for it has finished with it.
C3_Witness ==
  \E c \in PassDone :
    /\ hist[c].subs = 1
    /\ Len(hist[c].sent) >= 2
    /\ mux = "notify" /\ c \notin hpass.failed
    /\ hpass.got[c] = <<>> /\ hpass.lost[c] = {}

\* The pass is not at its end, so one of its steps must be possible.
PassRunning == mux = "notify"

\* C4: a notify pass always terminates (each Find returning): once it holds
\* the lock it reaches the Unlock, also when no consumer ever drains its
\* channel and the channels are full.
C4_PassTerminates == PassRunning ~> (mux = "free")

\* A pass is at a send for a subscriber whose channel is full.
C4_Witness ==
  /\ mux = "notify"
  /\ pass.cur # NoChan
  /\ pass.i <= Len(pass.events)
  /\ Len(chan[pass.cur]) = ChanCap
  /\ \E c \in pass.pending \ {pass.cur} : Len(chan[c]) = ChanCap

\* C5: when the batch of a subscriber is not empty, the pass leaves the
\* subscriber's SinceUUID at the UUID of the batch's last event whether or not
\* sends of the batch were dropped; and an event dropped for a channel
\* (subscribed once) is never among the events sent to it.
C5_DroppedNeverResent ==
  /\ [](\A c \in Channels :
         hist[c].subs <= 1 => hist[c].dropped \cap SeqToSet(hist[c].sent) = {})
  /\ [][\A c \in DOMAIN subscribers :
          (PassLeaves(c) /\ pass.events # <<>>) =>
             subscribers'[c].SinceUUID = Last(pass.events)]_vars

\* An event was dropped for a subscriber, its cursor stands at that event,
\* and a later pass has finished with the subscriber.
C5_Witness ==
  \E c \in PassDone :
    /\ mux = "notify" /\ c \notin hpass.failed
    /\ hist[c].dropped # {}
    /\ hpass.lost[c] = {}
    /\ subscribers[c].SinceUUID = Max(hist[c].dropped)

\* A step in which Unsubscribe(c) was called.
UnsubscribeStep(c) == hist'[c].unsubs = hist[c].unsubs + 1

\* C6: Unsubscribe(c) on a channel with no entry (never subscribed, the map
\* still nil, or already unsubscribed) leaves the subscriber map as it was;
\* every Unsubscribe(c) leaves c without an entry, closes no channel, touches
\* no channel's buffer and leaves every other entry as it was.
C6_UnsubscribeIdempotent ==
  [][\A c \in Channels :
       UnsubscribeStep(c) =>
         /\ c \notin DOMAIN subscribers =>
              subscribers' = subscribers /\ mapNil' = mapNil
         /\ c \notin DOMAIN subscribers'
         /\ closed' = closed
         /\ chan' = chan
         /\ \A d \in DOMAIN subscribers \ {c} :
              d \in DOMAIN subscribers' /\ subscribers'[d] = subscribers[d]]_vars

\* A client has subscribed once and unsubscribed twice, so one Unsubscribe
\* found no entry, while a connection is subscribed.
C6_Witness ==
  \E c \in Clients : \E h \in Conns :
    /\ hist[c].subs = 1 /\ hist[c].unsubs = 2
    /\ c \notin DOMAIN subscribers
    /\ h \in DOMAIN subscribers

\* C7: during a pass every subscriber the pass has reached has Reverse false,
\* also when its Find failed; and while a subscriber stays subscribed, Reverse
\* once false stays false.
C7_ReverseNormalised ==
  /\ [](mux = "notify" =>
         \A c \in DOMAIN hpass.q0 \ pass.pending :
           c \in DOMAIN subscribers /\ ~subscribers[c].Reverse)
  /\ [][\A c \in DOMAIN subscribers \cap DOMAIN subscribers' :
          (hist'[c].subs = hist[c].subs /\ ~subscribers[c].Reverse) =>
             ~subscribers'[c].Reverse]_vars

\* A pass has finished with a subscriber that asked for Reverse, and its
\* Find failed.
C7_Witness ==
  \E c \in PassDone :
    /\ mux = "notify"
    /\ hpass.q0[c].Reverse
    /\ c \in hpass.failed

\* C8: a handler whose Subscribe succeeded calls Unsubscribe exactly once,
\* whichever way its delivery loop ends, before it closes the connection and
\* returns; from then on the registry holds no entry for its channel.  Until
\* the loop ends it has not called Unsubscribe and the entry is there.
C8_UnsubscribeOnExit ==
  \A h \in Conns :
    /\ hist[h].subs <= 1
    /\ hist[h].unsubs <= hist[h].subs
    /\ (hist[h].subs = 1 /\ conn[h].pc \in {"closing", "returned"}) =>
          hist[h].unsubs = 1 /\ h \notin DOMAIN subscribers
    /\ conn[h].pc \in {"streaming", "unsubscribing"} =>
          hist[h].subs = 1 /\ hist[h].unsubs = 0 /\ h \in DOMAIN subscribers

\* A handler has returned after a failed write.
C8_Witness ==
  \E h \in Conns :
    /\ conn[h].pc = "returned"
    /\ conn[h].exit = "writeErr"
    /\ hist[h].subs = 1

IsPrefix(s, t) == Len(s) <= Len(t) /\ s = SubSeq(t, 1, Len(s))

\* The log as the running pass found it when it took the lock.
LogAtLock == SubSeq(log, 1, hpass.logLen)

\* What a subscription seeded from h's page is to deliver: the events that
\* pass the page's filter after the newest event the page shows, oldest first.
AfterPage(h, l) ==
  FindIn(l, LogQuery(conn[h].req.Services, Max(SeqToSet(conn[h].page)), FALSE))

\* The running pass is over: every subscriber has been dealt with.
PassOver == mux = "notify" /\ pass.pending = {} /\ pass.cur = NoChan

\* C9 as stated: at the end of every notify pass, a subscriber seeded from a
\* non-empty page whose channel never filled has been sent no event of the
\* page, and every matching event after the page that was in the log when the
\* pass began.
C9_AsStated ==
  PassOver =>
    \A h \in Conns \cap DOMAIN hpass.q0 :
      (conn[h].page # <<>> /\ hist[h].dropped = {}) =>
         /\ SeqToSet(hist[h].sent) \cap SeqToSet(conn[h].page) = {}
         /\ IsPrefix(AfterPage(h, LogAtLock), hist[h].sent)

\* C9, amended: a subscriber seeded from a non-empty page is never sent an
\* event of the page; while its channel never filled, what it has been sent is
\* an initial part of the matching events after the page, in order; and when a
\* pass whose Find for it succeeded has finished with it, it has been sent all
\* of those that were in the log when the pass began.
C9_NoGapNoDuplicate ==
  \A h \in Conns :
    (hist[h].subs = 1 /\ conn[h].page # <<>>) =>
       /\ SeqToSet(hist[h].sent) \cap SeqToSet(conn[h].page) = {}
       /\ hist[h].dropped = {} =>
            /\ IsPrefix(hist[h].sent, AfterPage(h, log))
            /\ (mux = "notify" /\ h \in PassDone /\ h \notin hpass.failed) =>
                 IsPrefix(AfterPage(h, LogAtLock), hist[h].sent)

\* A page of two events was shown newest first, and a pass has delivered the
\* event written after it.
C9_Witness ==
  \E h \in PassDone \cap Conns :
    /\ mux = "notify" /\ h \notin hpass.failed
    /\ conn[h].req.Reverse /\ Len(conn[h].page) >= 2
    /\ hist[h].dropped = {}
    /\ hist[h].sent # <<>>
    /\ hist[h].sent = AfterPage(h, log)

\* What a pass over the log l is to deliver to subscriber c: the events that
\* pass c's filter after the cursor c had when the pass began, oldest first.
Due(c, l) == FindIn(l, [hpass.q0[c] EXCEPT !.Reverse = FALSE])

\* The cursor c is to have after a pass over l.
DueCursor(c, l) ==
  IF Due(c, l) = <<>> THEN hpass.q0[c].SinceUUID ELSE Last(Due(c, l))

C11_CursorIsNewest ==
  \A h \in Conns :
    conn[h].pc # "init" =>
      LET p == conn[h].page IN
      IF p = <<>>
      THEN conn[h].lastUUID = EmptyUUID
      ELSE /\ conn[h].lastUUID = Max(SeqToSet(p))
           /\ conn[h].lastUUID = IF conn[h].req.Reverse THEN p[1] ELSE Last(p)

\* A newest-first page of two events or more carries its first event's UUID.
C11_Witness ==
  \E h \in Conns :
    /\ conn[h].pc = "paged" /\ conn[h].req.Reverse
    /\ Len(conn[h].page) >= 2
    /\ conn[h].page[1] > conn[h].page[2]
    /\ conn[h].lastUUID = conn[h].page[1]

\* A step of the running pass in which the Find for subscriber c failed.
FindFailsStep(c) == c \notin hpass.failed /\ c \in hpass'.failed

\* C12: a Find that fails for a subscriber during a pass leaves that
\* subscriber registered with the cursor it had, sends nothing to it and
\* changes no channel; the pass goes on, and when it is over every other
\* subscriber of its range has been offered (sent or dropped) every event that
\* was due to it when the pass began; the next pass ranges over the map as it
\* is then, so it queries the failed subscriber again from the same cursor.
C12_FailedFindSkips ==
  /\ [][\A c \in Channels :
          FindFailsStep(c) =>
            /\ DOMAIN subscribers' = DOMAIN subscribers
            /\ \A d \in DOMAIN subscribers :
                 subscribers'[d].SinceUUID = subscribers[d].SinceUUID
            /\ chan' = chan /\ hist' = hist
            /\ mux' = "notify"
            /\ pass'.pending = pass.pending \ {c}]_vars
  /\ [](mux = "notify" =>
          \A c \in hpass.failed :
            /\ c \in DOMAIN subscribers
            /\ subscribers[c].SinceUUID = hpass.q0[c].SinceUUID
            /\ hpass.got[c] = <<>> /\ hpass.lost[c] = {})
  /\ [](PassOver =>
          \A d \in DOMAIN hpass.q0 \ hpass.failed :
            SeqToSet(Due(d, LogAtLock)) \subseteq
              SeqToSet(hpass.got[d]) \cup hpass.lost[d])
  /\ [][(mux = "free" /\ mux' = "notify") =>
          /\ pass'.pending = DOMAIN subscribers
          /\ hpass'.q0 = subscribers]_vars
  /\ [][(mux = "free" /\ mux' = "free") =>
          \A c \in DOMAIN subscribers \cap DOMAIN subscribers' :
            hist'[c].subs = hist[c].subs => subscribers'[c] = subscribers[c]]_vars

\* The Find for one subscriber failed although events were due to it, and the
\* same pass has since sent an event to another subscriber.
C12_Witness ==
  /\ mux = "notify"
  /\ \E c \in hpass.failed : \E d \in DOMAIN hpass.q0 \ {c} :
       /\ Due(c, LogAtLock) # <<>>
       /\ hpass.got[c] = <<>>
       /\ pass.cur = d /\ hpass.got[d] # <<>>

\* C13: what a pass does for a subscriber b is fixed by b's own query, b's
\* own buffer and the event log, whatever the state of any other subscriber's
\* channel: the batch queried for b is the events after b's cursor that pass
\* b's filter; each event of the batch is sent when b's own buffer has room
\* and dropped otherwise; the cursor b is left with is the last event of the
\* batch; the loop body is never held up by a channel; and every step taken
\* for another subscriber leaves what b was sent, what b lost and b's cursor
\* as they were.  Two runs that differ only in how full another subscriber's
\* channel is therefore send b the same events and leave b the same cursors.
C13_OthersUnaffected ==
  /\ [][\A b \in Channels :
          /\ (pass.cur # b /\ pass'.cur # b) =>
               /\ hist'[b].sent = hist[b].sent
               /\ hist'[b].dropped = hist[b].dropped
               /\ chan'[b] = chan[b] \/ chan'[b] = Tail(chan[b])
               /\ ( /\ b \in DOMAIN subscribers \cap DOMAIN subscribers'
                    /\ hist'[b].subs = hist[b].subs ) =>
                      subscribers'[b].SinceUUID = subscribers[b].SinceUUID
          /\ (pass.cur = NoChan /\ pass'.cur = b) =>
               pass'.events =
                 FindIn(log, LogQuery(subscribers[b].Services,
                                      subscribers[b].SinceUUID, FALSE))
          /\ (pass.cur = b /\ pass'.cur = b /\ pass'.i # pass.i) =>
               LET e == pass.events[pass.i] IN
               IF Len(chan[b]) < ChanCap
               THEN /\ chan'[b] = Append(chan[b], e)
                    /\ hist'[b].sent = Append(hist[b].sent, e)
                    /\ hist'[b].dropped = hist[b].dropped
               ELSE /\ chan'[b] = chan[b]
                    /\ hist'[b].sent = hist[b].sent
                    /\ hist'[b].dropped = hist[b].dropped \cup {e}
          /\ PassLeaves(b) =>
               subscribers'[b].SinceUUID =
                 IF pass.events = <<>> THEN subscribers[b].SinceUUID
                                       ELSE Last(pass.events)]_vars
  /\ []((mux = "notify" /\ pass.cur # NoChan /\ pass.i <= Len(pass.events)) =>
          ENABLED NotifySend)

\* In one pass a subscriber's full channel lost an event, and the pass went
\* on to send an event to another subscriber while that channel was still full.
C13_Witness ==
  /\ mux = "notify"
  /\ \E a \in DOMAIN hpass.q0 : \E b \in DOMAIN hpass.q0 \ {a} :
       /\ hpass.lost[a] # {} /\ Len(chan[a]) = ChanCap
       /\ pass.cur = b /\ hpass.got[b] # <<>>

\* C14 as stated: a connection that had subscribed its channel and is closed
\* (by the handler's deferred ws.Close or by readLoop's c.Close) has had its
\* channel unsubscribed before: its channel is no longer in the subscriber map.
C14_UnsubscribedBeforeClosed ==
  \A h \in Conns :
    (hist[h].subs >= 1 /\ conn[h].ws = "closed") =>
       /\ hist[h].unsubs >= 1
       /\ h \notin DOMAIN subscribers

\* C15: while the watch loop runs, every file event with the Write bit that
\* it receives starts one notify pass and nothing else starts a pass (the
\* passes started are as many as the write events received, less the one
\* being dispatched); the loop's step on an event without the Write bit takes
\* it back to its select and leaves the subscriber map, every cursor, every
\* channel and the lock as they were.
C15_WritesNotify ==
  /\ [](watch.passes =
          watch.writes -
            (IF watch.pc = "got" /\ "Write" \in watch.op THEN 1 ELSE 0))
  /\ [][(mux = "free" /\ mux' = "notify") =>
          /\ watch.pc = "got" /\ "Write" \in watch.op
          /\ watch'.pc = "loop"
          /\ watch'.passes = watch.passes + 1]_vars
  /\ [][(watch.pc = "got" /\ "Write" \notin watch.op /\ watch'.pc # "got") =>
          /\ watch'.pc = "loop"
          /\ watch'.passes = watch.passes
          /\ subscribers' = subscribers /\ mapNil' = mapNil
          /\ chan' = chan /\ hist' = hist
          /\ mux' = mux /\ pass' = pass]_vars

\* The loop has received a file event without the Write bit and one with
\* it; the one pass it started is sending to a subscriber.
C15_Witness ==
  /\ watch.recvd = 2 /\ watch.writes = 1 /\ watch.passes = 1
  /\ watch.pc = "loop" /\ mux = "notify"
  /\ \E c \in DOMAIN hpass.got : hpass.got[c] # <<>>

\* C16: when the loop receives an error from the watch, Start returns an
\* error and the fsnotify watcher is closed; that step leaves the subscriber
\* map, its cursors, the channels and the lock as they were; no pass is
\* running then, and once Start has returned an error it stays returned and
\* no notify pass starts any more.
C16_ErrorIsFatal ==
  /\ [][(watch.pc = "loop" /\ watch.ret = "none" /\ watch'.ret = "err") =>
          /\ watch'.pc = "returned"
          /\ watch'.fs = "closed"
          /\ subscribers' = subscribers /\ mapNil' = mapNil
          /\ chan' = chan /\ hist' = hist
          /\ mux = "free" /\ mux' = "free"]_vars
  /\ [](watch.ret = "err" =>
          /\ watch.pc = "returned"
          /\ watch.fs # "open"
          /\ mux = "free")
  /\ [][watch.ret = "err" =>
          /\ watch'.ret = "err" /\ watch'.pc = "returned"
          /\ watch'.passes = watch.passes
          /\ mux' = "free"]_vars

\* Start has returned an error after a pass served a subscriber; the
\* subscriber is still registered, and an event written since lies after its
\* cursor, which no pass will deliver.
C16_Witness ==
  /\ watch.ret = "err" /\ watch.fs = "closed" /\ watch.passes >= 1
  /\ \E c \in DOMAIN subscribers :
       /\ hist[c].sent # <<>>
       /\ Find(subscribers[c]) # <<>>

\* C17 as stated: once Stop has been called after Start had begun and before
\* Start returned, the fsnotify watcher is closed, so that the loop leaves by
\* the closed-channel path, and Start does not return an error.
C17_StopEndsLoop ==
  (watch.stops >= 1 /\ watch.stopPc \in {"made", "assigned", "loop", "got"}) =>
     /\ watch.fs = "closed"
     /\ watch.ret # "err"

\* C18: while a notify pass holds the lock no Subscribe and no Unsubscribe
\* takes effect (the map keeps its keys, no such call completes) and no other
\* pass begins (the range of the running pass only shrinks); an Unsubscribe
\* completes only between passes and leaves the channel without an entry; and
\* a channel that has no entry is sent nothing and loses nothing, so after
\* Unsubscribe(ch) has returned no pass sends to ch.
C18_PassAtomic ==
  /\ [][mux = "notify" =>
          /\ DOMAIN subscribers' = DOMAIN subscribers
          /\ \A c \in Channels :
               /\ hist'[c].subs = hist[c].subs
               /\ hist'[c].unsubs = hist[c].unsubs
          /\ mux' = "notify" =>
               /\ pass'.pending \subseteq pass.pending
               /\ hpass'.q0 = hpass.q0
               /\ hpass'.logLen = hpass.logLen]_vars
  /\ [][\A c \in Channels :
          UnsubscribeStep(c) =>
            /\ mux = "free" /\ mux' = "free"
            /\ c \notin DOMAIN subscribers']_vars
  /\ [][\A c \in Channels :
          c \notin DOMAIN subscribers =>
            /\ hist'[c].sent = hist[c].sent
            /\ hist'[c].dropped = hist[c].dropped
            /\ chan'[c] = chan[c] \/ chan'[c] = Tail(chan[c])]_vars

\* A channel that was sent events has been unsubscribed; an event written
\* since lies after what it was sent, and a later pass, which does not range
\* over it, is sending to another subscriber.
C18_Witness ==
  /\ mux = "notify"
  /\ \E c \in Channels \ DOMAIN hpass.q0 : \E d \in DOMAIN hpass.q0 :
       /\ hist[c].unsubs >= 1 /\ hist[c].sent # <<>>
       /\ Len(log) > Last(hist[c].sent)
       /\ hpass.got[d] # <<>>

\* C19: once done is closed while the handler is in its delivery loop, the
\* handler eventually returns with its channel unsubscribed, whatever the
\* select takes first; no write to the WebSocket succeeds after done is
\* closed, and a step of the loop that takes an event then either skips the
\* write (the marshal failed) or ends the loop on the write's error: at most
\* one more write is attempted.
C19_PeerGoneEndsLoop ==
  /\ \A h \in Conns :
       (conn[h].done /\ conn[h].pc = "streaming") ~>
         (conn[h].pc = "returned" /\ h \notin DOMAIN subscribers)
  /\ [](\A h \in Conns : ~conn[h].late)
  /\ [][\A h \in Conns :
          ( /\ conn[h].done /\ conn[h].pc = "streaming"
            /\ Len(chan'[h]) < Len(chan[h]) ) =>
             \/ conn'[h] = conn[h]
             \/ conn'[h].pc = "unsubscribing" /\ conn'[h].exit = "writeErr"]_vars

\* The viewer went away while an event was waiting in the channel; the
\* handler took the done case and has returned, unsubscribed, with the event
\* still in the channel.
C19_Witness ==
  \E h \in Conns :
    /\ conn[h].pc = "returned" /\ conn[h].exit = "peer"
    /\ hist[h].unsubs = 1 /\ h \notin DOMAIN subscribers
    /\ chan[h] # <<>>

\* C20: a page without events carries the empty cursor; a connection opened
\* from it is refused by Subscribe: its handler never reaches the delivery
\* loop, its channel is never registered and nothing is ever sent to it, and
\* once it is at the Subscribe the handler eventually returns with the
\* connection closed and readLoop ended.
C20_EmptyPageNoStream ==
  /\ [](\A h \in Conns :
         (conn[h].pc # "init" /\ conn[h].page = <<>>) =>
            /\ conn[h].lastUUID = EmptyUUID
            /\ conn[h].pc \notin {"streaming", "unsubscribing"}
            /\ conn[h].exit \in {"none", "upgradeErr", "subscribeErr"}
            /\ hist[h].subs = 0
            /\ h \notin DOMAIN subscribers
            /\ h \notin DOMAIN hpass.q0
            /\ hist[h].sent = <<>> /\ hist[h].dropped = {} /\ chan[h] = <<>>)
  /\ \A h \in Conns :
       (conn[h].pc = "subscribing" /\ conn[h].page = <<>>) ~>
         /\ conn[h].pc = "returned" /\ conn[h].exit = "subscribeErr"
         /\ conn[h].ws = "closed" /\ conn[h].rl = "exited"

\* A connection opened from an empty page has been refused and has returned,
\* readLoop with it, while events are in the log and a pass is running.
C20_Witness ==
  \E h \in Conns :
    /\ conn[h].page = <<>> /\ conn[h].pc = "returned"
    /\ conn[h].exit = "subscribeErr" /\ hist[h].empties = 1
    /\ conn[h].ws = "closed" /\ conn[h].rl = "exited"
    /\ log # <<>> /\ mux = "notify"

====
